---- MODULE Spec2Model ----
(***************************************************************************)
(* Model of the mosaic-cs API: the linear algebra module                   *)
(* (api/linear_algebra.py) and the request layer of the Vektor router      *)
(* (api/data_science/vektor/routes.py).                                    *)
(*                                                                         *)
(* Every operation is a stateless function of its request.  The state of   *)
(* the model is the call in flight: which operation was invoked (op), with *)
(* which input (arg), and the outcome it produced (res).                   *)
(*                                                                         *)
(* Numbers.  The code computes in IEEE doubles.  The model computes in     *)
(* exact rational arithmetic ([num, den] records in lowest terms), and     *)
(* the roots of a 2x2 characteristic polynomial in the quadratic field     *)
(* Q(sqrt D): rounding error is outside the model, everything else (the    *)
(* order of operations, pivoting, shapes, exceptions) follows the code.    *)
(***************************************************************************)
EXTENDS Integers, Sequences, FiniteSets, TLC

VARIABLES pc, op, arg, res

vars == <<pc, op, arg, res>>

(***************************************************************************)
(* Bounds of the model.                                                    *)
(***************************************************************************)
MaxPoints == 2      \* longest point sequence handed to transform_points
MaxGridSize == 3    \* largest grid size handed to generate_grid
MaxRows == 3        \* longest dataset handed to compute_pca

(***************************************************************************)
(* Exact rational arithmetic standing for float64 arithmetic.              *)
(***************************************************************************)
Abs(n) == IF n < 0 THEN -n ELSE n

RECURSIVE GCD(_, _)
GCD(a, b) == IF b = 0 THEN a ELSE GCD(b, a % b)

Rat(p, q) ==
    LET s == IF q < 0 THEN -1 ELSE 1
        g == GCD(Abs(p), Abs(q))
    IN  [num |-> (s * p) \div g, den |-> (s * q) \div g]

R(n) == [num |-> n, den |-> 1]

RAdd(x, y) == Rat(x.num * y.den + y.num * x.den, x.den * y.den)
RSub(x, y) == Rat(x.num * y.den - y.num * x.den, x.den * y.den)
RMul(x, y) == Rat(x.num * y.num, x.den * y.den)
RDiv(x, y) == Rat(x.num * y.den, x.den * y.num)
RNeg(x) == [num |-> -x.num, den |-> x.den]
RLeq(x, y) == x.num * y.den <= y.num * x.den
RLt(x, y) == x.num * y.den < y.num * x.den
RAbs(x) == [num |-> Abs(x.num), den |-> x.den]
RSign(x) == IF x.num > 0 THEN 1 ELSE IF x.num < 0 THEN -1 ELSE 0

RECURSIVE RSum(_)
RSum(s) == IF s = <<>> THEN R(0) ELSE RAdd(Head(s), RSum(Tail(s)))

(***************************************************************************)
(* Square roots.  The eigenvalues of a 2x2 matrix are (tr +- sqrt D) / 2   *)
(* with D the discriminant of its characteristic polynomial: a number of   *)
(* the quadratic field Q(sqrt D), kept as a + b * sqrt(D) with rational a, *)
(* b and D >= 0.  Surd() is the canonical form: a perfect square D is      *)
(* folded into a, and b = 0 goes with D = 0, so that equal numbers are     *)
(* equal records as long as they come from the same D.                     *)
(***************************************************************************)
RECURSIVE NewtonSqrt(_, _)
NewtonSqrt(n, x) ==
    LET y == (x + n \div x) \div 2
    IN  IF y >= x THEN x ELSE NewtonSqrt(n, y)

ISqrt(n) == IF n = 0 THEN 0 ELSE NewtonSqrt(n, n)

IsSquare(n) == ISqrt(n) * ISqrt(n) = n

Surd(a, b, D) ==
    IF b = R(0) \/ D = R(0) THEN [a |-> a, b |-> R(0), D |-> R(0)]
    ELSE IF IsSquare(D.num) /\ IsSquare(D.den)
         THEN [a |-> RAdd(a, RMul(b, Rat(ISqrt(D.num), ISqrt(D.den)))),
               b |-> R(0), D |-> R(0)]
    ELSE [a |-> a, b |-> b, D |-> D]

S(r) == [a |-> r, b |-> R(0), D |-> R(0)]

SRadicand(x, y) == IF x.b # R(0) THEN x.D ELSE y.D

SAdd(x, y) == Surd(RAdd(x.a, y.a), RAdd(x.b, y.b), SRadicand(x, y))
SSub(x, y) == Surd(RSub(x.a, y.a), RSub(x.b, y.b), SRadicand(x, y))
SNeg(x) == [a |-> RNeg(x.a), b |-> RNeg(x.b), D |-> x.D]
SMul(x, y) ==
    LET D == SRadicand(x, y)
    IN  Surd(RAdd(RMul(x.a, y.a), RMul(RMul(x.b, y.b), D)),
             RAdd(RMul(x.a, y.b), RMul(x.b, y.a)), D)
\* x / y for y # 0: multiply by the conjugate of y
SDiv(x, y) ==
    LET D == SRadicand(x, y)
        n == RSub(RMul(y.a, y.a), RMul(RMul(y.b, y.b), D))
        c == [a |-> y.a, b |-> RNeg(y.b), D |-> y.D]
        t == SMul(x, c)
    IN  Surd(RDiv(t.a, n), RDiv(t.b, n), D)

\* the sign of a + b * sqrt(D)
SSign(x) ==
    IF x.b = R(0) \/ x.D = R(0) THEN RSign(x.a)
    ELSE IF x.a = R(0) THEN RSign(x.b)
    ELSE IF RSign(x.a) = RSign(x.b) THEN RSign(x.a)
    ELSE LET a2 == RMul(x.a, x.a)
             b2D == RMul(RMul(x.b, x.b), x.D)
         IN  IF a2 = b2D THEN 0
             ELSE IF RLt(b2D, a2) THEN RSign(x.a) ELSE RSign(x.b)

SLeq(x, y) == SSign(SSub(x, y)) <= 0
SLt(x, y) == SSign(SSub(x, y)) < 0

\* not-a-number, the result of the float division 0.0 / 0.0
NaN == [nan |-> TRUE]

(***************************************************************************)
(* Outcomes of a Python call: a returned value or a raised exception.      *)
(***************************************************************************)
Null == "None"

Return(v) == [exc |-> "none", msg |-> "", value |-> v]
Raise(e, m) == [exc |-> e, msg |-> m, value |-> Null]
Raised(r) == r.exc # "none"

(***************************************************************************)
(* numpy arrays: a shape, a dtype and the (nested) data.                   *)
(***************************************************************************)
NDArray(shape, data) == [shape |-> shape, dtype |-> "float64", data |-> data]

IsRagged(rows) == \E i \in 1..Len(rows) : Len(rows[i]) # Len(rows[1])

\* np.array(rows) for rows : list[list[float]].  An empty list is the 1-D
\* array of shape (0,); equally long rows give shape (n, k); rows of unequal
\* length raise ValueError (NumPy >= 1.24) or give a 1-D object array of
\* shape (n,) (older NumPy), according to the NumPy the build runs on.
np_array(rows, numpy) ==
    IF rows = <<>> THEN Return(NDArray(<<0>>, <<>>))
    ELSE IF ~IsRagged(rows)
         THEN Return(NDArray(<<Len(rows), Len(rows[1])>>, rows))
    ELSE IF numpy = "ValueError"
         THEN Raise("ValueError", "inhomogeneous shape")
    ELSE Return([shape |-> <<Len(rows)>>, dtype |-> "object", data |-> rows])

\* ndarray.tolist()
tolist(a) == a.data

\* ndarray.T of a 2-D array
transpose(a) ==
    NDArray(<<a.shape[2], a.shape[1]>>,
            [j \in 1..a.shape[2] |-> [i \in 1..a.shape[1] |-> a.data[i][j]]])

\* a @ b for a 2-D array b: a is 2-D (n, k) or 1-D (k,); the core dimension k
\* must equal the row count of b, otherwise numpy raises ValueError.
matmul(a, b) ==
    LET k == b.shape[1]
        m == b.shape[2]
        dot(row, j) == RSum([l \in 1..k |-> RMul(row[l], b.data[l][j])])
    IN  IF Len(a.shape) = 2
        THEN IF a.shape[2] # k
             THEN Raise("ValueError", "matmul: mismatch in core dimension")
             ELSE Return(NDArray(<<a.shape[1], m>>,
                      [i \in 1..a.shape[1] |-> [j \in 1..m |-> dot(a.data[i], j)]]))
        ELSE IF a.shape[1] # k
             THEN Raise("ValueError", "matmul: mismatch in core dimension")
             ELSE Return(NDArray(<<m>>, [j \in 1..m |-> dot(a.data, j)]))

(***************************************************************************)
(* api/linear_algebra.py                                                   *)
(***************************************************************************)
transform_points_no_transpose(points, matrix) ==
    IF matrix.shape # <<2, 2>>
    THEN Raise("ValueError", "Matrix must be 2x2")
    ELSE matmul(points, matrix)

transform_points(points, matrix) ==
    IF matrix.shape # <<2, 2>>
    THEN Raise("ValueError", "Matrix must be 2x2")
    ELSE matmul(points, transpose(matrix))

\* np.linalg.det of a 2x2 array: LAPACK getrf (LU factorisation with partial
\* pivoting on the first column), then the product of the diagonal of U with
\* the sign of the row permutation.  A zero pivot makes the matrix singular
\* and the determinant 0.
np_linalg_det_no_sign(m) ==
    LET swap == RLt(RAbs(m[1][1]), RAbs(m[2][1]))
        p == IF swap THEN m[2] ELSE m[1]
        q == IF swap THEN m[1] ELSE m[2]
    IN  IF p[1] = R(0) THEN R(0)
        ELSE RMul(p[1], RSub(q[2], RMul(RDiv(q[1], p[1]), p[2])))

np_linalg_det(m) ==
    LET swap == RLt(RAbs(m[1][1]), RAbs(m[2][1]))
        p == IF swap THEN m[2] ELSE m[1]
        q == IF swap THEN m[1] ELSE m[2]
        sign == IF swap THEN R(-1) ELSE R(1)
    IN  IF p[1] = R(0) THEN R(0)
        ELSE LET l == RDiv(q[1], p[1])
                 u22 == RSub(q[2], RMul(l, p[2]))
             IN  RMul(sign, RMul(p[1], u22))

compute_determinant_checks_rows_only(matrix) ==
    IF matrix.shape[1] # 2
    THEN Raise("ValueError", "Matrix must be 2x2")
    ELSE IF Len(matrix.shape) # 2 \/ matrix.shape # <<2, 2>>
    THEN Raise("LinAlgError", "Last 2 dimensions of the array must be square")
    ELSE Return(np_linalg_det(matrix.data))

compute_determinant(matrix) ==
    IF matrix.shape # <<2, 2>>
    THEN Raise("ValueError", "Matrix must be 2x2")
    ELSE Return(np_linalg_det(matrix.data))

\* np.linspace(start, stop, num): num evenly spaced samples, the last one set
\* to stop; a negative num raises ValueError.
linspace(start, stop, num) ==
    IF num < 0
    THEN Raise("ValueError", "Number of samples must be non-negative")
    ELSE Return([k \in 1..num |->
            IF num > 1 /\ k = num THEN stop
            ELSE IF num = 1 THEN start
            ELSE RAdd(RMul(R(k - 1), RDiv(RSub(stop, start), R(num - 1))), start)])

RECURSIVE Flatten(_)
Flatten(ss) == IF ss = <<>> THEN <<>> ELSE Head(ss) \o Flatten(Tail(ss))

generate_grid_deduplicated(size, range_val) ==
    LET x == linspace(RNeg(range_val), range_val, size)
    IN  IF Raised(x) THEN x
        ELSE np_array(Flatten([j \in 1..size |->
                 [i \in 1..size |-> <<x.value[i], x.value[j]>>]]), "any")

generate_grid_same_sweep(size, range_val) ==
    LET x == linspace(RNeg(range_val), range_val, size)
    IN  IF Raised(x) THEN x
        ELSE LET horizontal == Flatten([j \in 1..size |->
                     [i \in 1..size |-> <<x.value[i], x.value[j]>>]])
             IN  np_array(horizontal \o horizontal, "any")

generate_grid(size, range_val) ==
    LET x == linspace(RNeg(range_val), range_val, size)
        y == linspace(RNeg(range_val), range_val, size)
    IN  IF Raised(x) THEN x
        ELSE LET horizontal == Flatten([j \in 1..size |->
                     [i \in 1..size |-> <<x.value[i], y.value[j]>>]])
                 vertical == Flatten([i \in 1..size |->
                     [j \in 1..size |-> <<x.value[i], y.value[j]>>]])
             IN  np_array(horizontal \o vertical, "any")

\* np.mean(data, axis=0) of an (n, 2) array, n >= 1
column_mean(data, j) ==
    RDiv(RSum([i \in 1..data.shape[1] |-> data.data[i][j]]), R(data.shape[1]))

np_mean_axis0(data) == <<column_mean(data, 1), column_mean(data, 2)>>

\* data - mean, row by row
subtract_mean(data, mean) ==
    NDArray(data.shape,
        [i \in 1..data.shape[1] |->
            <<RSub(data.data[i][1], mean[1]), RSub(data.data[i][2], mean[2])>>])

\* np.cov(x) of a (2, n) array whose rows are the variables, n >= 2: the rows
\* are centred on their means and the products summed and divided by n - 1.
cov_entry(x, avg, i, j) ==
    RDiv(RSum([k \in 1..x.shape[2] |->
            RMul(RSub(x.data[i][k], avg[i]), RSub(x.data[j][k], avg[j]))]),
         R(x.shape[2] - 1))

cov_about(x, avg) ==
    <<<<cov_entry(x, avg, 1, 1), cov_entry(x, avg, 1, 2)>>,
      <<cov_entry(x, avg, 2, 1), cov_entry(x, avg, 2, 2)>>>>

np_cov(x) ==
    cov_about(x, <<RDiv(RSum(x.data[1]), R(x.shape[2])), RDiv(RSum(x.data[2]), R(x.shape[2]))>>)

\* A vector entry s / sqrt(n2): the entry s of an eigenvector direction over
\* the Euclidean norm sqrt(n2) of that direction.
Scaled(s, n2) == [s |-> s, n2 |-> n2]

\* the 2x2 array whose columns are c1 and c2
Columns(c1, c2) == <<<<c1[1], c2[1]>>, <<c1[2], c2[2]>>>>

\* A complex number re + im * i
Complex(re, im) == [re |-> re, im |-> im]

CAbs2(z) == SAdd(SMul(z.re, z.re), SMul(z.im, z.im))

Trace(m) == RAdd(m[1][1], m[2][2])

\* the discriminant of the characteristic polynomial: tr^2 - 4 det
Discriminant(m) ==
    RAdd(RMul(RSub(m[1][1], m[2][2]), RSub(m[1][1], m[2][2])),
         RMul(R(4), RMul(m[1][2], m[2][1])))

IsDiagonal(m) == m[1][2] = R(0) /\ m[2][1] = R(0)

\* np.linalg.eig of a real 2x2 matrix with real eigenvalues (discriminant
\* D >= 0).  The eigenvalues are (tr +- sqrt D) / 2.  LAPACK fixes neither
\* the order of the pair nor the sign of a unit eigenvector: both are taken
\* from lapack = [first |-> "+" or "-", sign |-> <<+-1, +-1>>].  A diagonal
\* matrix is returned as it stands: eigenvalues (a, d), eigenvectors e1, e2.
eig_root(m, sign) == Surd(RMul(Rat(1, 2), Trace(m)), Rat(sign, 2), Discriminant(m))

eig_real_values(m, lapack) ==
    IF IsDiagonal(m) THEN <<S(m[1][1]), S(m[2][2])>>
    ELSE IF lapack.first = "+" THEN <<eig_root(m, 1), eig_root(m, -1)>>
    ELSE <<eig_root(m, -1), eig_root(m, 1)>>

\* a direction of the eigenvector of eigenvalue w, the k-th of the pair
eig_real_direction(m, w, k) ==
    IF IsDiagonal(m)
    THEN (IF k = 1 THEN <<S(R(1)), S(R(0))>> ELSE <<S(R(0)), S(R(1))>>)
    ELSE IF m[1][2] # R(0) THEN <<S(m[1][2]), SSub(w, S(m[1][1]))>>
    ELSE <<SSub(w, S(m[2][2])), S(m[2][1])>>

\* the unit vector sign * dir / |dir|
unit_real(dir, sign) ==
    LET n2 == SAdd(SMul(dir[1], dir[1]), SMul(dir[2], dir[2]))
    IN  <<Scaled(SMul(S(R(sign)), dir[1]), n2), Scaled(SMul(S(R(sign)), dir[2]), n2)>>

eig_real_vectors(m, w, lapack) ==
    Columns(unit_real(eig_real_direction(m, w[1], 1), lapack.sign[1]),
            unit_real(eig_real_direction(m, w[2], 2), lapack.sign[2]))

eig_real(m, lapack) ==
    [w |-> eig_real_values(m, lapack),
     v |-> eig_real_vectors(m, eig_real_values(m, lapack), lapack)]

\* np.linalg.eig of a real 2x2 matrix with D < 0: the complex conjugate pair
\* tr / 2 +- i * sqrt(-D) / 2, with eigenvectors (b, w - a) over their norm
\* (b # 0 because D < 0 needs b * c < 0).
eig_complex_root(m, sign) ==
    Complex(S(RMul(Rat(1, 2), Trace(m))), Surd(R(0), Rat(sign, 2), RNeg(Discriminant(m))))

eig_complex_values(m, lapack) ==
    IF lapack.first = "+" THEN <<eig_complex_root(m, 1), eig_complex_root(m, -1)>>
    ELSE <<eig_complex_root(m, -1), eig_complex_root(m, 1)>>

eig_complex_direction(m, w) ==
    <<Complex(S(m[1][2]), S(R(0))), Complex(SSub(w.re, S(m[1][1])), w.im)>>

unit_complex(dir, sign) ==
    LET n2 == SAdd(CAbs2(dir[1]), CAbs2(dir[2]))
    IN  <<Scaled(Complex(SMul(S(R(sign)), dir[1].re), SMul(S(R(sign)), dir[1].im)), n2),
          Scaled(Complex(SMul(S(R(sign)), dir[2].re), SMul(S(R(sign)), dir[2].im)), n2)>>

eig_complex_vectors(m, w, lapack) ==
    Columns(unit_complex(eig_complex_direction(m, w[1]), lapack.sign[1]),
            unit_complex(eig_complex_direction(m, w[2]), lapack.sign[2]))

eig_complex(m, lapack) ==
    [w |-> eig_complex_values(m, lapack),
     v |-> eig_complex_vectors(m, eig_complex_values(m, lapack), lapack)]

\* np.linalg.eig: real arrays when every eigenvalue is real, complex otherwise
np_linalg_eig(m, lapack) ==
    IF RSign(Discriminant(m)) < 0 THEN eig_complex(m, lapack) ELSE eig_real(m, lapack)

\* a.argsort() of a length-2 array: ascending, ties keep their order
argsort(a) == IF SLeq(a[1], a[2]) THEN <<1, 2>> ELSE <<2, 1>>

\* a[::-1]
reversed(a) == [i \in 1..Len(a) |-> a[Len(a) + 1 - i]]

\* eigenvalues[idx] and eigenvectors[:, idx]
take(eig, idx) ==
    [w |-> <<eig.w[idx[1]], eig.w[idx[2]]>>,
     v |-> <<<<eig.v[1][idx[1]], eig.v[1][idx[2]]>>, <<eig.v[2][idx[1]], eig.v[2][idx[2]]>>>>]

sort_descending_ascending(eig) == take(eig, argsort(eig.w))

\* idx = eigenvalues.argsort()[::-1]; eigenvalues[idx]; eigenvectors[:, idx]
sort_descending(eig) == take(eig, reversed(argsort(eig.w)))

\* v[:, k] / np.linalg.norm(v[:, k]) for a real column k of a 2x2 array:
\* (s / sqrt n2) / sqrt(norm2) = s / sqrt(n2 * norm2), norm2 the squared norm
rescale(v, k, norm2) ==
    <<Scaled(v[1][k].s, SMul(norm2, v[1][k].n2)), Scaled(v[2][k].s, SMul(norm2, v[2][k].n2))>>

normalize_column(v, k) ==
    rescale(v, k, SDiv(SAdd(SMul(v[1][k].s, v[1][k].s), SMul(v[2][k].s, v[2][k].s)),
                       v[1][k].n2))

normalize_columns(v) == Columns(normalize_column(v, 1), normalize_column(v, 2))

\* centered_data @ eigenvectors
project_row(row, v, k) ==
    Scaled(SAdd(SMul(S(row[1]), v[1][k].s), SMul(S(row[2]), v[2][k].s)), v[1][k].n2)

project(centered_data, v) ==
    [i \in 1..centered_data.shape[1] |->
        <<project_row(centered_data.data[i], v, 1), project_row(centered_data.data[i], v, 2)>>]

\* x / y of two floats: 0.0 / 0.0 is nan
float_div(x, y) == IF SSign(y) = 0 THEN NaN ELSE SDiv(x, y)

divide_each(eigenvalues, total) ==
    <<float_div(eigenvalues[1], total), float_div(eigenvalues[2], total)>>

explained_variance_by_largest(eigenvalues) == divide_each(eigenvalues, eigenvalues[1])

\* eigenvalues / np.sum(eigenvalues)
explained_variance_of(eigenvalues) ==
    divide_each(eigenvalues, SAdd(eigenvalues[1], eigenvalues[2]))

pca_result(mean, centered_data, eig) ==
    [principal_components |-> normalize_columns(eig.v),
     explained_variance |-> explained_variance_of(eig.w),
     projected_data |-> project(centered_data, normalize_columns(eig.v)),
     mean |-> mean]

pca_of_centered(mean, centered_data, lapack) ==
    pca_result(mean, centered_data,
               sort_descending(np_linalg_eig(np_cov(transpose(centered_data)), lapack)))

compute_pca(data, lapack) ==
    IF Len(data.shape) < 2
    THEN Raise("IndexError", "tuple index out of range")
    ELSE IF data.shape[2] # 2
    THEN Raise("ValueError", "Data must be 2D (n, 2)")
    ELSE IF data.shape[1] < 2
    \* the mean of no rows, and the covariance of fewer than two rows, are nan
    THEN Raise("LinAlgError", "Array must not contain infs or NaNs")
    ELSE Return(pca_of_centered(np_mean_axis0(data),
                                subtract_mean(data, np_mean_axis0(data)), lapack))

\* ndarray.astype(np.complex128) of one entry
astype_complex(x, isComplex) == IF isComplex THEN x ELSE Complex(x, S(R(0)))

astype_complex_entry(e, isComplex) == Scaled(astype_complex(e.s, isComplex), e.n2)

\* eigenvectors[:, k] / np.linalg.norm(eigenvectors[:, k]) for a complex column
normalize_complex_column(v, k) ==
    rescale(v, k, SDiv(SAdd(CAbs2(v[1][k].s), CAbs2(v[2][k].s)), v[1][k].n2))

eigen_result(eig_result, isComplex) ==
    <<<<astype_complex(eig_result.w[1], isComplex), astype_complex(eig_result.w[2], isComplex)>>,
      Columns(
        normalize_complex_column(
          <<<<astype_complex_entry(eig_result.v[1][1], isComplex)>>,
            <<astype_complex_entry(eig_result.v[2][1], isComplex)>>>>, 1),
        normalize_complex_column(
          <<<<astype_complex_entry(eig_result.v[1][2], isComplex)>>,
            <<astype_complex_entry(eig_result.v[2][2], isComplex)>>>>, 1))>>

compute_eigen(matrix, lapack) ==
    IF matrix.shape # <<2, 2>>
    THEN Raise("ValueError", "Matrix must be 2x2")
    ELSE Return(eigen_result(np_linalg_eig(matrix.data, lapack),
                             RSign(Discriminant(matrix.data)) < 0))

(***************************************************************************)
(* api/data_science/vektor/routes.py: the request layer.                   *)
(* A request body has passed pydantic validation when the handler runs:    *)
(* matrix, points and data are lists of lists of numbers, points,          *)
(* grid_size and grid_range may be None.                                   *)
(***************************************************************************)
\* an optional field: None is the empty tuple, a value v the tuple <<v>>
None == <<>>
Some(x) == <<x>>
IsNone(o) == o = <<>>

HTTPException(status_code, detail) ==
    [exc |-> "HTTPException", msg |-> detail, value |-> status_code]

\* What FastAPI answers for the outcome of a handler: 200 with the returned
\* body, the status of a raised HTTPException, 500 for any other exception.
Response(outcome) ==
    IF outcome.exc = "none" THEN [status |-> 200, body |-> outcome.value]
    ELSE IF outcome.exc = "HTTPException"
         THEN [status |-> outcome.value, body |-> [detail |-> outcome.msg]]
    ELSE [status |-> 500, body |-> [exception |-> outcome.exc]]

transform(request, numpy) ==
    LET matrix == np_array(request.matrix, numpy)
    IN  IF Raised(matrix) THEN matrix
        ELSE IF matrix.value.shape # <<2, 2>>
        THEN HTTPException(422, "Matrix must be 2x2")
        ELSE
        LET grid_size == IF ~IsNone(request.grid_size) THEN request.grid_size[1] ELSE 10
            grid_range == IF ~IsNone(request.grid_range) THEN request.grid_range[1] ELSE Rat(5, 1)
            grid_points == IF IsNone(request.points)
                           THEN generate_grid(grid_size, grid_range)
                           ELSE np_array(request.points[1], numpy)
        IN  IF Raised(grid_points) THEN grid_points
            ELSE LET transformed == transform_points(grid_points.value, matrix.value)
                 IN  IF Raised(transformed) THEN transformed
                     ELSE Return([original |-> tolist(grid_points.value),
                                  transformed |-> tolist(transformed.value),
                                  matrix |-> tolist(matrix.value)])

\* a converter that writes a real value without its imaginary part
RECURSIVE convert_complex_drops_zero_imag(_, _)
convert_complex_drops_zero_imag(obj, ndim) ==
    IF ndim = 0
    THEN IF "n2" \in DOMAIN obj
         THEN IF SSign(obj.s.im) = 0 THEN <<Scaled(obj.s.re, obj.n2)>>
              ELSE <<Scaled(obj.s.re, obj.n2), Scaled(obj.s.im, obj.n2)>>
         ELSE IF SSign(obj.im) = 0 THEN <<obj.re>> ELSE <<obj.re, obj.im>>
    ELSE [i \in 1..Len(obj) |-> convert_complex_drops_zero_imag(obj[i], ndim - 1)]

\* convert_complex(obj) for an array of ndim dimensions of complex entries:
\* an array becomes the list of its converted items, a complex number the
\* pair [real, imaginary].
RECURSIVE convert_complex(_, _)
convert_complex(obj, ndim) ==
    IF ndim = 0
    THEN IF "n2" \in DOMAIN obj
         THEN <<Scaled(obj.s.re, obj.n2), Scaled(obj.s.im, obj.n2)>>
         ELSE <<obj.re, obj.im>>
    ELSE [i \in 1..Len(obj) |-> convert_complex(obj[i], ndim - 1)]

eigen(request, numpy, lapack) ==
    LET matrix == np_array(request.matrix, numpy)
    IN  IF Raised(matrix) THEN matrix
        ELSE IF matrix.value.shape # <<2, 2>>
        THEN HTTPException(422, "Matrix must be 2x2")
        ELSE LET r == compute_eigen(matrix.value, lapack)
             IN  IF Raised(r) THEN r
                 ELSE Return([eigenvalues |-> convert_complex(r.value[1], 1),
                              eigenvectors |-> convert_complex(r.value[2], 2)])

determinant(request, numpy) ==
    LET matrix == np_array(request.matrix, numpy)
    IN  IF Raised(matrix) THEN matrix
        ELSE IF matrix.value.shape # <<2, 2>>
        THEN HTTPException(422, "Matrix must be 2x2")
        ELSE LET det == compute_determinant(matrix.value)
             IN  IF Raised(det) THEN det
                 ELSE Return([determinant |-> det.value])

pca(request, numpy, lapack) ==
    LET data == np_array(request.data, numpy)
    IN  IF Raised(data) THEN data
        ELSE LET result == compute_pca(data.value, lapack)
             IN  IF Raised(result) THEN result
                 ELSE Return([original_data |-> tolist(data.value),
                              principal_components |-> result.value.principal_components,
                              explained_variance |-> result.value.explained_variance,
                              projected_data |-> result.value.projected_data,
                              mean |-> result.value.mean])

(***************************************************************************)
(* api/main.py: the application.  Its routes are the ones its decorators   *)
(* register; the handlers of the four POST routes are copies of the        *)
(* handlers of the Vektor router.  A request to a path with no route is    *)
(* answered 404, one to a route under another method 405.                  *)
(***************************************************************************)
main_get_routes == {"/", "/hello"}
main_post_routes == {"/api/transform", "/api/eigen", "/api/determinant", "/api/pca"}

root == Return([message |-> "Hello from FastAPI!"])
hello == Return([message |-> "Hello World from FastAPI! Mosaic is ready to go."])

\* the application's answer to a request: served is the response of the
\* handler registered for the path
app(method, path, served) ==
    IF path \in main_get_routes
    THEN IF method = "GET" THEN served
         ELSE Response(HTTPException(405, "Method Not Allowed"))
    ELSE IF path \in main_post_routes
    THEN IF method = "POST" THEN served
         ELSE Response(HTTPException(405, "Method Not Allowed"))
    ELSE Response(HTTPException(404, "Not Found"))

(***************************************************************************)
(* pandas.  A DataFrame is its column names, the dtype of each column and  *)
(* the cells of each column; a cell is a number, a string or missing (NaN).*)
(* The three kinds share one record shape.                                 *)
(***************************************************************************)
Num(r) == [kind |-> "num", num |-> r, str |-> ""]
Str(t) == [kind |-> "str", num |-> R(0), str |-> t]
NA == [kind |-> "nan", num |-> R(0), str |-> ""]

isna(cell) == cell.kind = "nan"

DataFrame(columns, dtypes, data) ==
    [columns |-> columns, dtypes |-> dtypes, data |-> data]

\* the fields read_csv takes for missing, for integers and for numbers
IsNAField(t) == t = ""
IsIntField(t) == t \in {"1", "2", "3", "4", "5"}
IsNumberField(t) == IsIntField(t) \/ t = "2.5"

NumberOf(t) ==
    CASE t = "1" -> R(1) [] t = "2" -> R(2) [] t = "3" -> R(3)
      [] t = "4" -> R(4) [] t = "5" -> R(5) [] t = "2.5" -> Rat(5, 2)

\* field j of a line; a line shorter than the header is filled with missing
field_of(line, j) == IF j <= Len(line) THEN line[j] ELSE ""

\* the dtype read_csv infers for a column from its fields
infer_dtype(fields) ==
    IF fields = <<>> THEN "object"
    ELSE IF \A i \in 1..Len(fields) : IsIntField(fields[i]) THEN "int64"
    ELSE IF \A i \in 1..Len(fields) : IsNumberField(fields[i]) \/ IsNAField(fields[i])
         THEN "float64"
    ELSE "object"

parse_field(t, dtype) ==
    IF IsNAField(t) THEN NA
    ELSE IF dtype = "object" THEN Str(t) ELSE Num(NumberOf(t))

column_fields(lines, j) == [i \in 1..Len(lines) |-> field_of(lines[i], j)]

parse_column(fields) ==
    [i \in 1..Len(fields) |-> parse_field(fields[i], infer_dtype(fields))]

\* pd.read_csv of a file given as its lines, each line as its fields: the
\* first line is the header; no line at all is an EmptyDataError, a line of
\* more fields than the lines before it a ParserError.
read_csv(contents) ==
    IF contents = <<>>
    THEN Raise("EmptyDataError", "No columns to parse from file")
    ELSE IF \E i \in 2..Len(contents) : Len(contents[i]) > Len(contents[1])
    THEN Raise("ParserError", "Error tokenizing data")
    ELSE LET header == contents[1]
             lines == Tail(contents)
         IN  Return(DataFrame(header,
                 [j \in 1..Len(header) |-> infer_dtype(column_fields(lines, j))],
                 [j \in 1..Len(header) |-> parse_column(column_fields(lines, j))]))

nrows(df) == IF df.columns = <<>> THEN 0 ELSE Len(df.data[1])

\* the position of a column name in df.columns, 0 when it is absent
RECURSIVE index_from(_, _, _)
index_from(columns, name, j) ==
    IF j > Len(columns) THEN 0
    ELSE IF columns[j] = name THEN j ELSE index_from(columns, name, j + 1)

column_index(df, name) == index_from(df.columns, name, 1)

\* df.select_dtypes(include=[np.number]).columns, as positions
IsNumberDtype(dtype) == dtype \in {"int64", "float64"}

RECURSIVE select_from(_, _)
select_from(dtypes, j) ==
    IF j > Len(dtypes) THEN <<>>
    ELSE IF IsNumberDtype(dtypes[j]) THEN <<j>> \o select_from(dtypes, j + 1)
    ELSE select_from(dtypes, j + 1)

select_dtypes_number(df) == select_from(df.dtypes, 1)

\* series.dropna()
not_na(cell) == ~isna(cell)
dropna(series) == SelectSeq(series, not_na)

\* series.isna().sum()
RECURSIVE isna_sum(_)
isna_sum(series) ==
    IF series = <<>> THEN 0
    ELSE (IF isna(Head(series)) THEN 1 ELSE 0) + isna_sum(Tail(series))

\* the numbers of a series without missing cells
values_of(series) == [i \in 1..Len(series) |-> series[i].num]

\* ascending insertion sort
RECURSIVE insert_sorted(_, _)
insert_sorted(x, sorted) ==
    IF sorted = <<>> THEN <<x>>
    ELSE IF RLeq(x, Head(sorted)) THEN <<x>> \o sorted
    ELSE <<Head(sorted)>> \o insert_sorted(x, Tail(sorted))

RECURSIVE np_sort(_)
np_sort(v) == IF v = <<>> THEN <<>> ELSE insert_sorted(Head(v), np_sort(Tail(v)))

series_mean(v) == RDiv(RSum(v), R(Len(v)))

\* series.quantile(q), linear interpolation between the order statistics
\* at position (n - 1) * q
quantile_at(sorted, lower, frac) ==
    IF frac = R(0) THEN sorted[lower]
    ELSE RAdd(sorted[lower], RMul(frac, RSub(sorted[lower + 1], sorted[lower])))

quantile_sorted(sorted, pos) ==
    quantile_at(sorted, pos.num \div pos.den + 1, RSub(pos, R(pos.num \div pos.den)))

quantile(v, q) == quantile_sorted(np_sort(v), RMul(R(Len(v) - 1), q))

series_median(v) == quantile(v, Rat(1, 2))

squares_about(v, m) == [i \in 1..Len(v) |-> RMul(RSub(v[i], m), RSub(v[i], m))]

\* series.var(): sum of squared deviations over n - 1
series_var(v) == RDiv(RSum(squares_about(v, series_mean(v))), R(Len(v) - 1))

\* series.std(): nan for a single value
series_std(v) ==
    IF Len(v) < 2 THEN NaN ELSE Surd(R(0), R(1), series_var(v))

series_min(v) == np_sort(v)[1]
series_max(v) == np_sort(v)[Len(v)]

(***************************************************************************)
(* statlab/statistics.py                                                   *)
(***************************************************************************)
column_stats(name, series, v) ==
    [column |-> name,
     mean |-> series_mean(v),
     median |-> series_median(v),
     std |-> series_std(v),
     min |-> series_min(v),
     max |-> series_max(v),
     q25 |-> quantile(v, Rat(1, 4)),
     q75 |-> quantile(v, Rat(3, 4)),
     count |-> Len(v),
     missing |-> isna_sum(series)]

stats_loop_keeps_empty(df, cols) ==
    [k \in 1..Len(cols) |->
        [column |-> df.columns[cols[k]],
         count |-> Len(dropna(df.data[cols[k]])),
         missing |-> isna_sum(df.data[cols[k]])]]

\* the loop over the numeric columns: a column without values is skipped
RECURSIVE stats_loop(_, _)
stats_loop(df, cols) ==
    IF cols = <<>> THEN <<>>
    ELSE IF Len(dropna(df.data[Head(cols)])) = 0 THEN stats_loop(df, Tail(cols))
    ELSE <<column_stats(df.columns[Head(cols)], df.data[Head(cols)],
                        values_of(dropna(df.data[Head(cols)])))>>
         \o stats_loop(df, Tail(cols))

\* the result, a dict, as the sequence of its items in insertion order
compute_basic_stats(df) == Return(stats_loop(df, select_dtypes_number(df)))

bin_count_half_open(v, edges, i) ==
    Cardinality({k \in 1..Len(v) : RLeq(edges[i], v[k]) /\ RLt(v[k], edges[i + 1])})

\* the number of values of v in bin i of the edges, the last bin closed
bin_count(v, edges, i) ==
    Cardinality({k \in 1..Len(v) :
        /\ RLeq(edges[i], v[k])
        /\ IF i = Len(edges) - 1 THEN RLeq(v[k], edges[i + 1])
           ELSE RLt(v[k], edges[i + 1])})

histogram_of(v, edges) ==
    [counts |-> [i \in 1..(Len(edges) - 1) |-> bin_count(v, edges, i)],
     bin_edges |-> edges]

\* the range np.histogram spans: [min, max], widened by 0.5 on both sides
\* when min = max
first_edge(v) ==
    IF series_min(v) = series_max(v) THEN RSub(series_min(v), Rat(1, 2))
    ELSE series_min(v)

last_edge(v) ==
    IF series_min(v) = series_max(v) THEN RAdd(series_max(v), Rat(1, 2))
    ELSE series_max(v)

\* np.histogram(col_data, bins=bins) of a column without missing cells
np_histogram(col_data, bins) ==
    IF bins < 1
    THEN Raise("ValueError", "bins must be positive, when an integer")
    ELSE IF \E i \in 1..Len(col_data) : col_data[i].kind = "str"
    THEN Raise("TypeError", "ufunc 'isfinite' not supported for the input types")
    ELSE Return(histogram_of(values_of(col_data),
             linspace(first_edge(values_of(col_data)), last_edge(values_of(col_data)),
                      bins + 1).value))

\* (bin_edges[:-1] + bin_edges[1:]) / 2
bin_centers_of(edges) ==
    [i \in 1..(Len(edges) - 1) |-> RDiv(RAdd(edges[i], edges[i + 1]), R(2))]

histogram_result(h) ==
    IF Raised(h) THEN h
    ELSE Return([counts |-> h.value.counts,
                 bin_edges |-> h.value.bin_edges,
                 bin_centers |-> bin_centers_of(h.value.bin_edges)])

prepare_histogram_data_of_no_values(df, column, bins) ==
    IF column_index(df, column) = 0
    THEN Raise("ValueError", "Column '" \o column \o "' not found in DataFrame")
    ELSE IF Len(dropna(df.data[column_index(df, column)])) = 0
    THEN Return([counts |-> <<>>, bin_edges |-> <<>>, bin_centers |-> <<>>])
    ELSE histogram_result(np_histogram(dropna(df.data[column_index(df, column)]), bins))

prepare_histogram_data(df, column, bins) ==
    IF column_index(df, column) = 0
    THEN Raise("ValueError", "Column '" \o column \o "' not found in DataFrame")
    ELSE IF Len(dropna(df.data[column_index(df, column)])) = 0
    THEN Raise("ValueError", "Column '" \o column \o "' has no valid data")
    ELSE histogram_result(np_histogram(dropna(df.data[column_index(df, column)]), bins))

\* the rows of df[[x_col, y_col]] that dropna() keeps
clean_rows(x, y) == SelectSeq([i \in 1..Len(x) |-> <<x[i], y[i]>>],
                              LAMBDA row : ~isna(row[1]) /\ ~isna(row[2]))

scatter_of(rows) ==
    [x |-> [i \in 1..Len(rows) |-> rows[i][1]],
     y |-> [i \in 1..Len(rows) |-> rows[i][2]]]

\* df[[c, c]] has two columns of the one name c, and df_clean[c] is then a
\* DataFrame, which has no tolist
prepare_scatter_data(df, x_col, y_col) ==
    IF column_index(df, x_col) = 0 \/ column_index(df, y_col) = 0
    THEN Raise("ValueError", "One or both columns not found in DataFrame")
    ELSE IF x_col = y_col
    THEN Raise("AttributeError", "'DataFrame' object has no attribute 'tolist'")
    ELSE Return(scatter_of(clean_rows(df.data[column_index(df, x_col)],
                                      df.data[column_index(df, y_col)])))

\* the rows in which both columns have a value
pair_rows(x, y) == clean_rows(x, y)

pair_x(rows) == [i \in 1..Len(rows) |-> rows[i][1].num]
pair_y(rows) == [i \in 1..Len(rows) |-> rows[i][2].num]

\* sum of (x - mean x) * (y - mean y)
codeviation(x, y) ==
    RSum([i \in 1..Len(x) |-> RMul(RSub(x[i], series_mean(x)), RSub(y[i], series_mean(y)))])

\* Pearson's r = Sxy / sqrt(Sxx * Syy), nan when Sxx * Syy = 0
pearson_of(sxy, sxx_syy) ==
    IF sxx_syy = R(0) THEN NaN ELSE Surd(R(0), RDiv(sxy, sxx_syy), sxx_syy)

pearson(x, y) ==
    IF Len(x) < 1 THEN NaN
    ELSE pearson_of(codeviation(x, y), RMul(codeviation(x, x), codeviation(y, y)))

\* entry (i, j) of numeric_df.corr(): over the rows where both have a value
corr_entry(df, ci, cj) ==
    pearson(pair_x(pair_rows(df.data[ci], df.data[cj])),
            pair_y(pair_rows(df.data[ci], df.data[cj])))

corr(df, cols) ==
    [i \in 1..Len(cols) |-> [j \in 1..Len(cols) |-> corr_entry(df, cols[i], cols[j])]]

compute_correlation(df) ==
    Return([columns |-> [k \in 1..Len(select_dtypes_number(df)) |->
                            df.columns[select_dtypes_number(df)[k]]],
            values |-> corr(df, select_dtypes_number(df))])

(***************************************************************************)
(* statlab/routes.py.  An uploaded file is its filename (None when the     *)
(* upload names none) and its contents; read tells whether the handler     *)
(* read the contents.                                                      *)
(***************************************************************************)
endswith(s, suffix) ==
    Len(s) >= Len(suffix) /\ SubSeq(s, Len(s) - Len(suffix) + 1, Len(s)) = suffix

Handled(outcome, read) ==
    [exc |-> outcome.exc, msg |-> outcome.msg, value |-> outcome.value, read |-> read]

\* the classes an "except ValueError" clause catches
IsValueError(exc) == exc \in {"ValueError", "EmptyDataError", "ParserError"}

\* except ValueError as e: detail=str(e); except Exception as e: detail=prefix + str(e)
except_400(outcome, prefix) ==
    IF IsValueError(outcome.exc) THEN HTTPException(400, outcome.msg)
    ELSE HTTPException(400, prefix \o outcome.msg)

\* df.head(10).to_dict(orient="records"), a row as its cells in column order
head_records(df) ==
    [i \in 1..(IF nrows(df) < 10 THEN nrows(df) ELSE 10) |->
        [j \in 1..Len(df.columns) |-> df.data[j][i]]]

CSVUploadResponse(df) ==
    [columns |-> df.columns,
     shape |-> <<nrows(df), Len(df.columns)>>,
     preview |-> head_records(df),
     numeric_columns |-> [k \in 1..Len(select_dtypes_number(df)) |->
                             df.columns[select_dtypes_number(df)[k]]]]

upload_parsed(df) ==
    IF Raised(df) THEN HTTPException(400, "Error parsing CSV: " \o df.msg)
    ELSE Return(CSVUploadResponse(df.value))

upload_csv_reads_first(file) == Handled(upload_parsed(read_csv(file.contents)), TRUE)

upload_csv(file) ==
    IF IsNone(file.filename) \/ file.filename = Some("")
       \/ ~endswith(file.filename[1], ".csv")
    THEN Handled(HTTPException(400, "File must be a CSV file"), FALSE)
    ELSE Handled(upload_parsed(read_csv(file.contents)), TRUE)

statistics_of(df) ==
    IF Raised(df) THEN HTTPException(400, "Error computing statistics: " \o df.msg)
    ELSE Return([statistics |-> compute_basic_stats(df.value).value])

get_statistics(file) == Handled(statistics_of(read_csv(file.contents)), TRUE)

histogram_or_400(histogram_data) ==
    IF Raised(histogram_data)
    THEN except_400(histogram_data, "Error generating histogram: ")
    ELSE histogram_data

histogram_of_csv(df, column, bins) ==
    IF Raised(df) THEN except_400(df, "Error generating histogram: ")
    ELSE histogram_or_400(prepare_histogram_data(df.value, column, bins))

get_histogram(file, column, bins) ==
    Handled(histogram_of_csv(read_csv(file.contents), column, bins), TRUE)

scatter_or_400(scatter_data) ==
    IF Raised(scatter_data)
    THEN except_400(scatter_data, "Error generating scatter plot: ")
    ELSE scatter_data

scatter_of_csv(df, x_column, y_column) ==
    IF Raised(df) THEN except_400(df, "Error generating scatter plot: ")
    ELSE scatter_or_400(prepare_scatter_data(df.value, x_column, y_column))

get_scatter(file, x_column, y_column) ==
    Handled(scatter_of_csv(read_csv(file.contents), x_column, y_column), TRUE)

correlation_of(df) ==
    IF Raised(df) THEN HTTPException(400, "Error computing correlation: " \o df.msg)
    ELSE compute_correlation(df.value)

get_correlation(file) == Handled(correlation_of(read_csv(file.contents)), TRUE)

\* the response to a handler's outcome, with the record of the read
StatResponse(handled) ==
    [status |-> Response(handled).status, body |-> Response(handled).body,
     read |-> handled.read]

(***************************************************************************)
(* Inputs.                                                                 *)
(***************************************************************************)
RECURSIVE SeqsUpTo(_, _)
SeqsUpTo(S0, n) ==
    IF n = 0 THEN {<<>>}
    ELSE LET shorter == SeqsUpTo(S0, n - 1)
         IN  shorter \cup {Append(q, x) : q \in {t \in shorter : Len(t) = n - 1}, x \in S0}

\* ints as floats
Row(r) == [i \in 1..Len(r) |-> R(r[i])]
Rows(rs) == [i \in 1..Len(rs) |-> Row(rs[i])]

MatrixEntries == {R(-1), R(0), R(1), R(2)}

Lists2x2(E) == {<<<<a, b>>, <<c, d>>>> : a \in E, b \in E, c \in E, d \in E}

\* the matrices handed to transform_points: every 0/1 matrix (the identity
\* among them), a scaling, a rotation, and matrices with distinct entries
TransformLists ==
    Lists2x2({R(0), R(1)})
        \cup { Rows(<<<<2, 0>>, <<0, 2>>>>), Rows(<<<<0, -1>>, <<1, 0>>>>),
               Rows(<<<<1, 2>>, <<3, 4>>>>), Rows(<<<<-1, 2>>, <<2, -1>>>>),
               <<<<R(2), R(-1)>>, <<Rat(1, 2), R(3)>>>> }

\* rectangular lists that are not 2 rows of 2 entries
NotSquareLists ==
    { <<>>, <<<<>>>>, Rows(<<<<1, 2>>>>), Rows(<<<<1>>, <<2>>>>),
      Rows(<<<<1, 2, 3>>, <<4, 5, 6>>>>), Rows(<<<<1, 2>>, <<3, 4>>, <<5, 6>>>>),
      Rows(<<<<1, 0, 0>>, <<0, 1, 0>>, <<0, 0, 1>>>>) }

\* lists whose rows differ in length
RaggedLists ==
    { Rows(<<<<1, 2>>, <<3>>>>), Rows(<<<<1>>, <<2, 3>>>>),
      Rows(<<<<1, 2>>, <<3, 4>>, <<5>>>>), Rows(<<<<1, 2>>, <<>>>>) }

\* What np.array does with rows of unequal length depends on the NumPy of the
\* build; on every other input all builds agree.
NumpyBuilds(rows) == IF IsRagged(rows) THEN {"ValueError", "object"} ELSE {"any"}

Lapack == [first : {"+", "-"}, sign : {<<1, 1>>, <<1, -1>>, <<-1, 1>>, <<-1, -1>>}]

\* arrays handed to the functions of the linear algebra module
ArrayOf(rows) == np_array(rows, "any").value

NotSquareArrays == {ArrayOf(l) : l \in NotSquareLists}

\* one-dimensional arrays
OneDimArrays ==
    {NDArray(<<0>>, <<>>), NDArray(<<2>>, Row(<<1, 2>>)), NDArray(<<4>>, Row(<<1, 0, 0, 1>>))}

Points == {<<R(0), R(0)>>, <<R(1), R(1)>>, <<R(2), R(2)>>, <<Rat(-1, 2), R(3)>>}

PointLists == SeqsUpTo(Points, MaxPoints)

\* n points as an (n, 2) array; no points are the array of shape (0, 2)
PointArray(l) == NDArray(<<Len(l), 2>>, l)

GridSizes == -1..MaxGridSize
GridRanges == {R(0), R(1), R(2), Rat(5, 2), R(-1)}

DataRows == {Row(<<0, 0>>), Row(<<1, 1>>), Row(<<2, 0>>), Row(<<1, 3>>)}
DataLists == SeqsUpTo(DataRows, MaxRows)

NotTwoColumnLists ==
    { Rows(<<<<1>>, <<2>>>>), Rows(<<<<1, 2, 3>>, <<4, 5, 6>>>>), <<<<>>>>,
      Rows(<<<<1, 2, 3>>>>) }

NotTwoColumnArrays ==
    {ArrayOf(l) : l \in NotTwoColumnLists} \cup {NDArray(<<0, 3>>, <<>>)}

(***************************************************************************)
(* The state machine: an idle server takes one call or request, computes   *)
(* its outcome, and becomes idle again.                                    *)
(***************************************************************************)
Init ==
    /\ pc = "idle"
    /\ op = "none"
    /\ arg = <<>>
    /\ res = Return(Null)

Invoke(name, input, outcome) ==
    /\ pc' = "done"
    /\ op' = name
    /\ arg' = input
    /\ res' = outcome

Call_transform_points ==
    /\ pc = "idle"
    /\ \E l \in PointLists :
         \/ \E m \in {ArrayOf(x) : x \in TransformLists} \cup NotSquareArrays :
              Invoke("transform_points", [points |-> PointArray(l), matrix |-> m],
                     transform_points(PointArray(l), m))
         \/ \E m \in OneDimArrays :
              Invoke("transform_points", [points |-> PointArray(l), matrix |-> m],
                     transform_points(PointArray(l), m))

Call_compute_eigen ==
    /\ pc = "idle"
    /\ \E k \in Lapack :
         \/ \E m \in {ArrayOf(x) : x \in Lists2x2(MatrixEntries)} \cup NotSquareArrays :
              Invoke("compute_eigen", [matrix |-> m, lapack |-> k], compute_eigen(m, k))
         \/ \E m \in OneDimArrays :
              Invoke("compute_eigen", [matrix |-> m, lapack |-> k], compute_eigen(m, k))

Call_compute_determinant ==
    /\ pc = "idle"
    /\ \/ \E m \in {ArrayOf(x) : x \in Lists2x2(MatrixEntries)} \cup NotSquareArrays :
            Invoke("compute_determinant", [matrix |-> m], compute_determinant(m))
       \/ \E m \in OneDimArrays :
            Invoke("compute_determinant", [matrix |-> m], compute_determinant(m))

Call_generate_grid ==
    /\ pc = "idle"
    /\ \E size \in GridSizes, range_val \in GridRanges :
         Invoke("generate_grid", [size |-> size, range_val |-> range_val],
                generate_grid(size, range_val))

Call_compute_pca ==
    /\ pc = "idle"
    /\ \E k \in Lapack :
         \/ \E d \in {PointArray(l) : l \in DataLists} \cup NotTwoColumnArrays :
              Invoke("compute_pca", [data |-> d, lapack |-> k], compute_pca(d, k))
         \/ \E d \in OneDimArrays :
              Invoke("compute_pca", [data |-> d, lapack |-> k], compute_pca(d, k))

TransformRequests ==
    LET matrices == TransformLists \cup NotSquareLists \cup RaggedLists
    IN  [matrix : matrices, points : {Some(l) : l \in PointLists},
         grid_size : {Some(10)}, grid_range : {Some(Rat(5, 1))}]
        \cup [matrix : matrices, points : {None},
              grid_size : {None} \cup {Some(n) : n \in GridSizes},
              grid_range : {None} \cup {Some(r) : r \in GridRanges}]

POST_transform ==
    /\ pc = "idle"
    /\ \E request \in TransformRequests :
         \E numpy \in NumpyBuilds(request.matrix) :
            Invoke("POST transform", [request |-> request, numpy |-> numpy],
                   Response(transform(request, numpy)))

MatrixRequests ==
    [matrix : Lists2x2(MatrixEntries) \cup NotSquareLists \cup RaggedLists]

POST_eigen ==
    /\ pc = "idle"
    /\ \E request \in MatrixRequests, k \in Lapack :
         \E numpy \in NumpyBuilds(request.matrix) :
            Invoke("POST eigen", [request |-> request, numpy |-> numpy, lapack |-> k],
                   Response(eigen(request, numpy, k)))

POST_determinant ==
    /\ pc = "idle"
    /\ \E request \in MatrixRequests :
         \E numpy \in NumpyBuilds(request.matrix) :
            Invoke("POST determinant", [request |-> request, numpy |-> numpy],
                   Response(determinant(request, numpy)))

PCARequests == [data : DataLists \cup NotTwoColumnLists \cup RaggedLists]

POST_pca ==
    /\ pc = "idle"
    /\ \E request \in PCARequests, k \in Lapack :
         \E numpy \in NumpyBuilds(request.data) :
            Invoke("POST pca", [request |-> request, numpy |-> numpy, lapack |-> k],
                   Response(pca(request, numpy, k)))

\* the call has returned, the response is sent
Complete ==
    /\ pc = "done"
    /\ pc' = "idle"
    /\ op' = "none"
    /\ arg' = <<>>
    /\ res' = Return(Null)

Next ==
    \/ Call_transform_points
    \/ Call_compute_eigen
    \/ Call_compute_determinant
    \/ Call_generate_grid
    \/ Call_compute_pca
    \/ POST_transform
    \/ POST_eigen
    \/ POST_determinant
    \/ POST_pca
    \/ Complete

Spec == Init /\ [][Next]_vars

(***************************************************************************)
(* The application of main.py, as the API tests drive it: one request at a *)
(* time, to the paths main.py registers and to the paths of the Vektor     *)
(* router.                                                                 *)
(***************************************************************************)
VektorPrefix == "/api/data-science/vektor"
Prefixes == {"/api", VektorPrefix}

Send(method, path, input, served) ==
    Invoke("app", [method |-> method, path |-> path] @@ input, app(method, path, served))

\* a request without a body: a GET, or a POST to a path registered for GET
Request_get ==
    /\ pc = "idle"
    /\ \E method \in {"GET", "POST"} :
         \E path \in IF method = "GET"
                     THEN {"/", "/hello", "/api/determinant", VektorPrefix \o "/determinant"}
                     ELSE {"/", "/hello"} :
            Send(method, path, <<>>, Response(IF path = "/" THEN root ELSE hello))

Request_transform ==
    /\ pc = "idle"
    /\ \E prefix \in Prefixes, request \in TransformRequests :
         \E numpy \in NumpyBuilds(request.matrix) :
            Send("POST", prefix \o "/transform", [request |-> request, numpy |-> numpy],
                 Response(transform(request, numpy)))

Request_eigen ==
    /\ pc = "idle"
    /\ \E prefix \in Prefixes, request \in MatrixRequests, k \in Lapack :
         \E numpy \in NumpyBuilds(request.matrix) :
            Send("POST", prefix \o "/eigen",
                 [request |-> request, numpy |-> numpy, lapack |-> k],
                 Response(eigen(request, numpy, k)))

Request_determinant ==
    /\ pc = "idle"
    /\ \E prefix \in Prefixes, request \in MatrixRequests :
         \E numpy \in NumpyBuilds(request.matrix) :
            Send("POST", prefix \o "/determinant", [request |-> request, numpy |-> numpy],
                 Response(determinant(request, numpy)))

Request_pca ==
    /\ pc = "idle"
    /\ \E prefix \in Prefixes, request \in PCARequests, k \in Lapack :
         \E numpy \in NumpyBuilds(request.data) :
            Send("POST", prefix \o "/pca",
                 [request |-> request, numpy |-> numpy, lapack |-> k],
                 Response(pca(request, numpy, k)))

AppNext ==
    \/ Request_get
    \/ Request_transform
    \/ Request_eigen
    \/ Request_determinant
    \/ Request_pca
    \/ Complete

AppSpec == Init /\ [][AppNext]_vars

(***************************************************************************)
(* The statistics service: CSV files of the header a,b and up to MaxLines  *)
(* lines, the datasets read from them, and one call or request at a time.  *)
(***************************************************************************)
MaxLines == 3       \* most lines after the header of an uploaded file
MaxBins == 3        \* most bins asked of a histogram

CsvHeader == <<"a", "b">>

CsvLines ==
    { <<"1", "3">>, <<"2", "3">>, <<"", "x">>, <<"", "4">>, <<"4", "5">>, <<"2.5">>,
      <<"1", "2", "3">> }

\* the first line after the header is no longer than the header
CsvFiles ==
    {<<>>} \cup { <<CsvHeader>> \o lines : lines \in
                    { l \in SeqsUpTo(CsvLines, MaxLines) :
                        l = <<>> \/ Len(l[1]) <= Len(CsvHeader) } }

DataFrames == { read_csv(f).value : f \in { g \in CsvFiles : ~Raised(read_csv(g)) } }

ColumnNames == {"a", "b", "c"}

BinCounts == -1..MaxBins

Filenames ==
    { None, Some(""), Some("data.csv"), Some("data.txt"), Some("data.CSV"),
      Some(".csv"), Some("csv"), Some("data.csv.txt") }

UploadFile(filename, contents) == [filename |-> filename, contents |-> contents]

Call_compute_basic_stats ==
    /\ pc = "idle"
    /\ \E df \in DataFrames :
         Invoke("compute_basic_stats", [df |-> df], compute_basic_stats(df))

Call_prepare_histogram_data ==
    /\ pc = "idle"
    /\ \E df \in DataFrames, column \in ColumnNames, bins \in BinCounts :
         Invoke("prepare_histogram_data", [df |-> df, column |-> column, bins |-> bins],
                prepare_histogram_data(df, column, bins))

Call_prepare_scatter_data ==
    /\ pc = "idle"
    /\ \E df \in DataFrames, x_col \in ColumnNames, y_col \in ColumnNames :
         Invoke("prepare_scatter_data", [df |-> df, x_col |-> x_col, y_col |-> y_col],
                prepare_scatter_data(df, x_col, y_col))

Call_compute_correlation ==
    /\ pc = "idle"
    /\ \E df \in DataFrames :
         Invoke("compute_correlation", [df |-> df], compute_correlation(df))

POST_upload ==
    /\ pc = "idle"
    /\ \E filename \in Filenames, contents \in CsvFiles :
         Invoke("POST upload", [file |-> UploadFile(filename, contents)],
                StatResponse(upload_csv(UploadFile(filename, contents))))

POST_stats ==
    /\ pc = "idle"
    /\ \E contents \in CsvFiles :
         Invoke("POST stats", [file |-> UploadFile(Some("data.csv"), contents)],
                StatResponse(get_statistics(UploadFile(Some("data.csv"), contents))))

POST_histogram ==
    /\ pc = "idle"
    /\ \E contents \in CsvFiles, column \in ColumnNames, bins \in BinCounts :
         Invoke("POST histogram",
                [file |-> UploadFile(Some("data.csv"), contents),
                 column |-> column, bins |-> bins],
                StatResponse(get_histogram(UploadFile(Some("data.csv"), contents),
                                           column, bins)))

POST_scatter ==
    /\ pc = "idle"
    /\ \E contents \in CsvFiles, x_column \in ColumnNames, y_column \in ColumnNames :
         Invoke("POST scatter",
                [file |-> UploadFile(Some("data.csv"), contents),
                 x_column |-> x_column, y_column |-> y_column],
                StatResponse(get_scatter(UploadFile(Some("data.csv"), contents),
                                         x_column, y_column)))

POST_correlation ==
    /\ pc = "idle"
    /\ \E contents \in CsvFiles :
         Invoke("POST correlation", [file |-> UploadFile(Some("data.csv"), contents)],
                StatResponse(get_correlation(UploadFile(Some("data.csv"), contents))))

StatNext ==
    \/ Call_compute_basic_stats
    \/ Call_prepare_histogram_data
    \/ Call_prepare_scatter_data
    \/ Call_compute_correlation
    \/ POST_upload
    \/ POST_stats
    \/ POST_histogram
    \/ POST_scatter
    \/ POST_correlation
    \/ Complete

StatSpec == Init /\ [][StatNext]_vars

(***************************************************************************)
(* Concurrent service.  The handlers are coroutines on one event loop: a   *)
(* handler runs without interruption from its call to its first await,     *)
(* and from there to its return.  The linear-algebra handlers have no      *)
(* await; every statistics handler has one, contents = await file.read().  *)
(* Up to MaxInFlight requests are in flight, each in a slot of its own     *)
(* holding the handler's parameters (arg) and its position (pc).           *)
(***************************************************************************)
MaxInFlight == 2

Slots == 1..MaxInFlight

ServeMatrices == {Rows(<<<<1, 0>>, <<0, 1>>>>), Rows(<<<<1, 2>>, <<3, 4>>>>), Rows(<<<<1, 2, 3>>>>)}
ServeData == {Rows(<<<<0, 0>>, <<1, 1>>, <<2, 0>>>>), Rows(<<<<1, 2>>>>)}
ServeContents == {<<>>, <<CsvHeader, <<"1", "3">>, <<"2", "3">>>>, <<CsvHeader, <<"4", "5">>, <<"", "4">>>>}
ServeFilenames == {Some("data.csv"), Some("data.txt")}
LapackBuild == CHOOSE k \in Lapack : TRUE

ServeInit ==
    /\ pc = [s \in Slots |-> "idle"]
    /\ op = [s \in Slots |-> "none"]
    /\ arg = [s \in Slots |-> <<>>]
    /\ res = [s \in Slots |-> Return(Null)]

\* the handler of slot s was called with input and ran to position, leaving outcome
Run(s, name, input, position, outcome) ==
    /\ pc' = [pc EXCEPT ![s] = position]
    /\ op' = [op EXCEPT ![s] = name]
    /\ arg' = [arg EXCEPT ![s] = input]
    /\ res' = [res EXCEPT ![s] = outcome]

\* a linear-algebra request: the handler runs to its return
Serve_vektor ==
    \E s \in Slots :
       /\ pc[s] = "idle"
       /\ \/ \E matrix \in ServeMatrices :
               Run(s, "POST transform",
                   [request |-> [matrix |-> matrix, points |-> None,
                                 grid_size |-> Some(2), grid_range |-> None],
                    numpy |-> "any"],
                   "done",
                   Response(transform([matrix |-> matrix, points |-> None,
                                       grid_size |-> Some(2), grid_range |-> None], "any")))
          \/ \E matrix \in ServeMatrices :
               Run(s, "POST eigen", [request |-> [matrix |-> matrix], numpy |-> "any"], "done",
                   Response(eigen([matrix |-> matrix], "any", LapackBuild)))
          \/ \E matrix \in ServeMatrices :
               Run(s, "POST determinant", [request |-> [matrix |-> matrix], numpy |-> "any"],
                   "done", Response(determinant([matrix |-> matrix], "any")))
          \/ \E data \in ServeData :
               Run(s, "POST pca", [request |-> [data |-> data], numpy |-> "any"], "done",
                   Response(pca([data |-> data], "any", LapackBuild)))

\* the handler has reached contents = await file.read()
Await(s, name, input) == Run(s, name, input, "reading", Return(Null))

\* a statistics request: the handler runs to its await, or, for an upload
\* whose filename is refused, to its return
Serve_statlab ==
    \E s \in Slots :
       /\ pc[s] = "idle"
       /\ \E contents \in ServeContents :
            \/ \E filename \in ServeFilenames :
                 IF ~upload_csv(UploadFile(filename, <<>>)).read
                 THEN Run(s, "POST upload", [file |-> UploadFile(filename, contents)], "done",
                          StatResponse(upload_csv(UploadFile(filename, <<>>))))
                 ELSE Await(s, "POST upload", [file |-> UploadFile(filename, contents)])
            \/ Await(s, "POST stats", [file |-> UploadFile(Some("data.csv"), contents)])
            \/ \E bins \in {0, 2} :
                 Await(s, "POST histogram",
                       [file |-> UploadFile(Some("data.csv"), contents),
                        column |-> "a", bins |-> bins])
            \/ \E y_column \in {"b", "c"} :
                 Await(s, "POST scatter",
                       [file |-> UploadFile(Some("data.csv"), contents),
                        x_column |-> "a", y_column |-> y_column])
            \/ Await(s, "POST correlation", [file |-> UploadFile(Some("data.csv"), contents)])

\* the file parameter of the handler running in slot s
file_of_any_slot(frames, s) ==
    IF \E t \in Slots : pc[t] = "reading" /\ t # s
    THEN frames[CHOOSE t \in Slots : pc[t] = "reading" /\ t # s].file
    ELSE frames[s].file

file_of(frames, s) == frames[s].file

\* the handler named name, from the return of its await to its return
after_read(name, input, file) ==
    IF name = "POST upload" THEN upload_csv(file)
    ELSE IF name = "POST stats" THEN get_statistics(file)
    ELSE IF name = "POST histogram" THEN get_histogram(file, input.column, input.bins)
    ELSE IF name = "POST scatter" THEN get_scatter(file, input.x_column, input.y_column)
    ELSE get_correlation(file)

\* file.read() completes and the handler of slot s runs to its return
Resume ==
    \E s \in Slots :
       /\ pc[s] = "reading"
       /\ pc' = [pc EXCEPT ![s] = "done"]
       /\ res' = [res EXCEPT ![s] = StatResponse(after_read(op[s], arg[s], file_of(arg, s)))]
       /\ UNCHANGED <<op, arg>>

\* the response of slot s is sent and the slot is free again
Close ==
    \E s \in Slots :
       /\ pc[s] = "done"
       /\ Run(s, "none", <<>>, "idle", Return(Null))

ServeNext ==
    \/ Serve_vektor
    \/ Serve_statlab
    \/ Resume
    \/ Close

ServeSpec == ServeInit /\ [][ServeNext]_vars

(***************************************************************************)
(* Properties.                                                             *)
(***************************************************************************)
Returned(name) == pc = "done" /\ op = name /\ res.exc = "none"
Called(name) == pc = "done" /\ op = name

Identity2 == <<<<R(1), R(0)>>, <<R(0), R(1)>>>>

\* C1: for a 2x2 matrix [[a,b],[c,d]] and n >= 0 points, transform_points
\* returns exactly n points in the same order, the i-th being
\* (a*x_i + b*y_i, c*x_i + d*y_i); no points give no points, and the identity
\* matrix returns the input unchanged.
C1_TransformPoints ==
    (Called("transform_points") /\ arg.matrix.shape = <<2, 2>>) =>
        LET M == arg.matrix.data
            P == arg.points.data
            n == arg.points.shape[1]
        IN  /\ res.exc = "none"
            /\ res.value.shape = <<n, 2>>
            /\ Len(res.value.data) = n
            /\ \A i \in 1..n :
                 res.value.data[i] =
                    <<RAdd(RMul(M[1][1], P[i][1]), RMul(M[1][2], P[i][2])),
                      RAdd(RMul(M[2][1], P[i][1]), RMul(M[2][2], P[i][2]))>>
            /\ (n = 0 => res.value.data = <<>>)
            /\ (M = Identity2 => res.value.data = P)

C1_Witness ==
    /\ Returned("transform_points")
    /\ arg.points.shape[1] = 2
    /\ arg.matrix.shape = <<2, 2>>
    /\ arg.matrix.data[1][2] # arg.matrix.data[2][1]
    /\ arg.points.data[1] # arg.points.data[2]

ShapeFunctions == {"transform_points", "compute_eigen", "compute_determinant"}

ShapeError(r) == r.exc = "ValueError" /\ r.msg = "Matrix must be 2x2"

\* C3: transform_points, compute_eigen and compute_determinant fail with
\* ValueError "Matrix must be 2x2", returning nothing, for every matrix whose
\* shape is not (2, 2), and never raise that error for a 2x2 matrix.
C3_ShapeValidation ==
    (pc = "done" /\ op \in ShapeFunctions) =>
        IF arg.matrix.shape # <<2, 2>>
        THEN ShapeError(res) /\ res.value = Null
        ELSE ~ShapeError(res)

C3_Witness ==
    /\ Called("compute_determinant")
    /\ arg.matrix.shape = <<2, 3>>
    /\ ShapeError(res)

Multipliers == {Rat(p, q) : p \in -2..2, q \in 1..2}

\* row r is a multiple of row q
MultipleOf(r, q) == \E t \in Multipliers : r = <<RMul(t, q[1]), RMul(t, q[2])>>

\* C4: for a 2x2 matrix [[a,b],[c,d]] compute_determinant returns a*d - b*c,
\* and so 0 whenever one row is a multiple of the other.
C4_Determinant ==
    (Called("compute_determinant") /\ arg.matrix.shape = <<2, 2>>) =>
        LET M == arg.matrix.data
        IN  /\ res.exc = "none"
            /\ res.value = RSub(RMul(M[1][1], M[2][2]), RMul(M[1][2], M[2][1]))
            /\ (MultipleOf(M[1], M[2]) \/ MultipleOf(M[2], M[1])) => res.value = R(0)

\* the pivot is the second row, and the determinant is not 0
C4_Witness ==
    /\ Returned("compute_determinant")
    /\ arg.matrix.shape = <<2, 2>>
    /\ RLt(RAbs(arg.matrix.data[1][1]), RAbs(arg.matrix.data[2][1]))
    /\ res.value # R(0)

\* C5: for size >= 0 and range >= 0, generate_grid returns exactly
\* 2*size*size points, each a pair, every coordinate within [-range, range].
C5_GridSizeAndRange ==
    (Called("generate_grid") /\ arg.size >= 0 /\ RLeq(R(0), arg.range_val)) =>
        /\ res.exc = "none"
        /\ res.value.shape[1] = 2 * arg.size * arg.size
        /\ Len(res.value.data) = 2 * arg.size * arg.size
        /\ \A k \in 1..Len(res.value.data) :
             /\ Len(res.value.data[k]) = 2
             /\ \A j \in 1..2 :
                  /\ RLeq(RNeg(arg.range_val), res.value.data[k][j])
                  /\ RLeq(res.value.data[k][j], arg.range_val)

C5_Witness ==
    /\ Returned("generate_grid")
    /\ arg.size = 3
    /\ arg.range_val = Rat(5, 2)
    /\ Len(res.value.data) = 18

Is2x2List(rows) == Len(rows) = 2 /\ \A i \in 1..2 : Len(rows[i]) = 2

MatrixEndpoints == {"POST transform", "POST eigen", "POST determinant"}

\* C2: POST transform, POST eigen and POST determinant answer every request
\* whose matrix is a list of lists of numbers other than 2 rows of 2 entries
\* (wrong row count, wrong column count, rows of unequal length) with HTTP
\* 422 and no computation result, and with no other status.
C2_NotSquareIs422 ==
    (pc = "done" /\ op \in MatrixEndpoints /\ ~Is2x2List(arg.request.matrix)) =>
        /\ res.status = 422
        /\ DOMAIN res.body = {"detail"}

\* the coordinates c_0 .. c_{size-1} of the raster
Coordinates(size, range_val) == linspace(RNeg(range_val), range_val, size).value

Occurrences(points, p) == Cardinality({k \in 1..Len(points) : points[k] = p})

\* point j*size+i of the first half and point i*size+j of the second half
\* are (c_i, c_j), counting i, j and the points of a half from 0
TwoTraversals(points, size, c) ==
    /\ Len(points) = 2 * size * size
    /\ \A i \in 0..(size - 1), j \in 0..(size - 1) :
         /\ points[j * size + i + 1] = <<c[i + 1], c[j + 1]>>
         /\ points[size * size + i * size + j + 1] = <<c[i + 1], c[j + 1]>>

\* every raster point occurs once in each half and twice overall
OncePerHalf(points, size, c) ==
    \A i \in 1..size, j \in 1..size :
        /\ Occurrences(SubSeq(points, 1, size * size), <<c[i], c[j]>>) = 1
        /\ Occurrences(SubSeq(points, size * size + 1, 2 * size * size), <<c[i], c[j]>>) = 1
        /\ Occurrences(points, <<c[i], c[j]>>) = 2

\* C6, as amended: the output of generate_grid(size, range) is the two
\* traversals of the size x size raster, x fastest first and y fastest second,
\* nothing deduplicated; when range is not 0 (the coordinates are then
\* pairwise distinct) every raster point occurs exactly once in each half and
\* exactly twice overall.
C6_GridTraversals ==
    Returned("generate_grid") =>
        LET points == res.value.data
            c == Coordinates(arg.size, arg.range_val)
        IN  /\ TwoTraversals(points, arg.size, c)
            /\ arg.range_val # R(0) => OncePerHalf(points, arg.size, c)

\* C6 as stated: every raster point occurs exactly once in each half and
\* exactly twice overall, whatever the range.
C6_AsStated ==
    Returned("generate_grid") =>
        LET points == res.value.data
            c == Coordinates(arg.size, arg.range_val)
        IN  /\ TwoTraversals(points, arg.size, c)
            /\ OncePerHalf(points, arg.size, c)

C6_Witness ==
    /\ Returned("generate_grid")
    /\ arg.size = 3
    /\ arg.range_val = R(2)
    /\ res.value.data[2] = <<R(0), R(-2)>>
    /\ res.value.data[11] = <<R(-2), R(0)>>

\* C7: a POST transform request with a 2x2 matrix is answered 200; original
\* is generate_grid(grid_size, grid_range) (defaults 10 and 5.0) when points
\* is omitted, and exactly the supplied list of n >= 0 points otherwise;
\* transformed is transform_points(original, matrix), as long as original
\* and in its order; matrix is echoed.
C7_TransformResponse ==
    (Called("POST transform") /\ Is2x2List(arg.request.matrix)) =>
        LET request == arg.request
            size == IF IsNone(request.grid_size) THEN 10 ELSE request.grid_size[1]
            range_val == IF IsNone(request.grid_range) THEN Rat(5, 1)
                         ELSE request.grid_range[1]
        IN  /\ res.status = 200
            /\ IF IsNone(request.points)
               THEN res.body.original = tolist(generate_grid(size, range_val).value)
               ELSE res.body.original = request.points[1]
            /\ Len(res.body.transformed) = Len(res.body.original)
            /\ \A i \in 1..Len(res.body.original) :
                 res.body.transformed[i] =
                    transform_points(PointArray(<<res.body.original[i]>>),
                                     ArrayOf(request.matrix)).value.data[1]
            /\ res.body.matrix = request.matrix

NotTwoDimensional(shape) == Len(shape) # 2 \/ shape[2] # 2

\* C8: compute_pca fails with ValueError "Data must be 2D" and returns nothing
\* for every array whose shape is not (n, 2): a one-dimensional or empty
\* array, or a two-dimensional array of a column count other than 2.
C8_PcaShapeError ==
    (Called("compute_pca") /\ NotTwoDimensional(arg.data.shape)) =>
        /\ res.exc = "ValueError"
        /\ res.msg = "Data must be 2D (n, 2)"
        /\ res.value = Null

NotTwoColumns(rows) == rows = <<>> \/ \E i \in 1..Len(rows) : Len(rows[i]) # 2

\* C9: POST pca answers every request whose data is not a list of 2-entry
\* rows (rows of 1 or 3+ entries, an empty list, rows of unequal length)
\* with HTTP 400; the failure of compute_pca never escapes the handler.
C9_PcaBadDataIs400 ==
    (Called("POST pca") /\ NotTwoColumns(arg.request.data)) => res.status = 400

\* the covariance matrix of the rows, by the textbook formula
\* (sum x_i y_i - n mean_x mean_y) / (n - 1)
Covariance(rows) ==
    LET n == Len(rows)
        mean(j) == RDiv(RSum([i \in 1..n |-> rows[i][j]]), R(n))
        c(j, k) == RDiv(RSub(RSum([i \in 1..n |-> RMul(rows[i][j], rows[i][k])]),
                             RMul(R(n), RMul(mean(j), mean(k)))), R(n - 1))
    IN  <<<<c(1, 1), c(1, 2)>>, <<c(2, 1), c(2, 2)>>>>

Det2(m) == RSub(RMul(m[1][1], m[2][2]), RMul(m[1][2], m[2][1]))

\* x is an eigenvalue of m: a root of x^2 - tr(m) x + det(m)
IsEigenvalue(x, m) ==
    SSign(SAdd(SSub(SMul(x, x), SMul(S(Trace(m)), x)), S(Det2(m)))) = 0

\* C10: for an n x 2 dataset whose covariance eigenvalues do not sum to 0,
\* explained_variance is a vector of length 2 whose i-th entry is the i-th
\* eigenvalue over the sum of both, so that the entries sum to 1.
C10_ExplainedVariance ==
    (Called("compute_pca") /\ ~NotTwoDimensional(arg.data.shape) /\ arg.data.shape[1] >= 2) =>
        LET cov == Covariance(arg.data.data)
            total == Trace(cov)
        IN  total # R(0) =>
              LET ev == res.value.explained_variance
              IN  /\ res.exc = "none"
                  /\ Len(ev) = 2
                  /\ IsEigenvalue(SMul(ev[1], S(total)), cov)
                  /\ IsEigenvalue(SMul(ev[2], S(total)), cov)
                  /\ SAdd(ev[1], ev[2]) = S(R(1))

\* three rows, and eigenvalues that are not rational
C10_Witness ==
    /\ Returned("compute_pca")
    /\ arg.data.shape = <<3, 2>>
    /\ "b" \in DOMAIN res.value.explained_variance[1]
    /\ res.value.explained_variance[1].b # R(0)
    /\ res.value.explained_variance[2].a # R(0)

\* the positions of the rows of a column that hold a value, and that miss one
Present(series) == {i \in 1..Len(series) : series[i].kind # "nan"}
Missing(series) == {i \in 1..Len(series) : series[i].kind = "nan"}

\* the positions of the numeric columns with at least one value
ReportedColumns(df) ==
    {j \in 1..Len(df.columns) :
        df.dtypes[j] \in {"int64", "float64"} /\ Present(df.data[j]) # {}}

\* C11: the keys of compute_basic_stats's result are exactly the numeric
\* columns with at least one non-missing value; for each of them count is
\* the number of non-missing values, missing the number of missing values of
\* the original column, and count + missing is the number of rows.
C11_BasicStatsKeys ==
    Called("compute_basic_stats") =>
        LET df == arg.df
            stats == res.value
        IN  /\ res.exc = "none"
            /\ {stats[k].column : k \in 1..Len(stats)}
                  = {df.columns[j] : j \in ReportedColumns(df)}
            /\ Len(stats) = Cardinality(ReportedColumns(df))
            /\ \A k \in 1..Len(stats) : \A j \in 1..Len(df.columns) :
                 df.columns[j] = stats[k].column =>
                    /\ stats[k].count = Cardinality(Present(df.data[j]))
                    /\ stats[k].missing = Cardinality(Missing(df.data[j]))
                    /\ stats[k].count + stats[k].missing = nrows(df)

\* a numeric column without any value is left out, the other one reported
C11_Witness ==
    /\ Returned("compute_basic_stats")
    /\ arg.df.dtypes = <<"float64", "int64">>
    /\ Present(arg.df.data[1]) = {}
    /\ Len(res.value) = 1
    /\ res.value[1].column = "b"
    /\ res.value[1].count = 2
    /\ res.value[1].missing = 0

\* the column of a call's dataset that the call names, and its values
NamedColumn(df, name) ==
    df.data[CHOOSE j \in 1..Len(df.columns) : df.columns[j] = name]

ValuesOf(series) == {series[i].num : i \in Present(series)}

Minimum(values) == CHOOSE v \in values : \A w \in values : RLeq(v, w)
Maximum(values) == CHOOSE v \in values : \A w \in values : RLeq(w, v)

RECURSIVE SumOf(_)
SumOf(counts) == IF counts = <<>> THEN 0 ELSE Head(counts) + SumOf(Tail(counts))

\* counts, edges and centers have the lengths of a histogram of bins bins,
\* the counts sum to the number of values, the edges do not decrease and
\* every center is the midpoint of its two edges
HistogramShape(h, bins, series) ==
    /\ Len(h.counts) = bins
    /\ SumOf(h.counts) = Cardinality(Present(series))
    /\ Len(h.bin_edges) = bins + 1
    /\ \A i \in 1..bins : RLeq(h.bin_edges[i], h.bin_edges[i + 1])
    /\ Len(h.bin_centers) = bins
    /\ \A i \in 1..bins :
         RAdd(h.bin_centers[i], h.bin_centers[i]) = RAdd(h.bin_edges[i], h.bin_edges[i + 1])

HasValues(df, name) ==
    /\ \E j \in 1..Len(df.columns) : df.columns[j] = name
    /\ Present(NamedColumn(df, name)) # {}

IsNumeric(series) == \A i \in Present(series) : series[i].kind = "num"

\* C12, as amended: for a numeric column with at least one non-missing value
\* and bins >= 1, prepare_histogram_data returns counts of length bins that
\* sum to the number of non-missing values, bins + 1 non-decreasing edges and
\* bins centers, each the midpoint of its edges; the edges run from the
\* column minimum to its maximum when these differ, and from minimum - 0.5 to
\* maximum + 0.5 when all values are equal.  For a column of strings it
\* fails with TypeError.
C12_Histogram ==
    (/\ Called("prepare_histogram_data")
     /\ HasValues(arg.df, arg.column)
     /\ arg.bins >= 1) =>
        LET series == NamedColumn(arg.df, arg.column)
            lo == Minimum(ValuesOf(series))
            hi == Maximum(ValuesOf(series))
        IN  IF IsNumeric(series)
            THEN /\ res.exc = "none"
                 /\ HistogramShape(res.value, arg.bins, series)
                 /\ lo # hi => /\ res.value.bin_edges[1] = lo
                               /\ res.value.bin_edges[arg.bins + 1] = hi
                 /\ lo = hi => /\ res.value.bin_edges[1] = RSub(lo, Rat(1, 2))
                               /\ res.value.bin_edges[arg.bins + 1] = RAdd(hi, Rat(1, 2))
            ELSE res.exc = "TypeError"

\* C12 as stated: for every column with at least one non-missing value and
\* bins >= 1 the histogram is returned and its edges run from the column
\* minimum to its maximum.
C12_AsStated ==
    (/\ Called("prepare_histogram_data")
     /\ HasValues(arg.df, arg.column)
     /\ arg.bins >= 1) =>
        LET series == NamedColumn(arg.df, arg.column)
        IN  /\ res.exc = "none"
            /\ HistogramShape(res.value, arg.bins, series)
            /\ res.value.bin_edges[1] = Minimum(ValuesOf(series))
            /\ res.value.bin_edges[arg.bins + 1] = Maximum(ValuesOf(series))

\* three bins over a column of the values 1 and 4 and a missing cell
C12_Witness ==
    /\ Returned("prepare_histogram_data")
    /\ arg.column = "a"
    /\ arg.bins = 3
    /\ Missing(NamedColumn(arg.df, "a")) # {}
    /\ res.value.counts = <<1, 0, 1>>
    /\ res.value.bin_edges = <<R(1), R(2), R(3), R(4)>>

ColumnAbsent(df, name) == \A j \in 1..Len(df.columns) : df.columns[j] # name

ColumnEmpty(df, name) ==
    \E j \in 1..Len(df.columns) : df.columns[j] = name /\ Present(df.data[j]) = {}

\* a file that read_csv reads: it has a header, and no line longer than it
Readable(contents) ==
    contents # <<>> /\ \A i \in 2..Len(contents) : Len(contents[i]) <= Len(contents[1])

FileColumnAbsent(contents, name) ==
    Readable(contents) /\ \A j \in 1..Len(contents[1]) : contents[1][j] # name

\* the column is in the header and no line has a field for it
FileColumnEmpty(contents, name) ==
    /\ Readable(contents)
    /\ \E j \in 1..Len(contents[1]) :
         /\ contents[1][j] = name
         /\ \A i \in 2..Len(contents) : j > Len(contents[i]) \/ contents[i][j] = ""

\* C13, as amended: prepare_histogram_data fails with ValueError, returning
\* no histogram, when the named column is absent ("Column '..' not found in
\* DataFrame") or has no non-missing value ("Column '..' has no valid data"),
\* and otherwise only when bins < 1; POST histogram answers an absent and an
\* empty column with HTTP 400 and that message.
C13_HistogramErrors ==
    /\ Called("prepare_histogram_data") =>
         /\ res.exc = "ValueError" <=>
               \/ ColumnAbsent(arg.df, arg.column)
               \/ ColumnEmpty(arg.df, arg.column)
               \/ arg.bins < 1
         /\ ColumnAbsent(arg.df, arg.column) =>
               /\ res.msg = "Column '" \o arg.column \o "' not found in DataFrame"
               /\ res.value = Null
         /\ ColumnEmpty(arg.df, arg.column) =>
               /\ res.msg = "Column '" \o arg.column \o "' has no valid data"
               /\ res.value = Null
    /\ Called("POST histogram") =>
         /\ FileColumnAbsent(arg.file.contents, arg.column) =>
               /\ res.status = 400
               /\ res.body.detail = "Column '" \o arg.column \o "' not found in DataFrame"
         /\ FileColumnEmpty(arg.file.contents, arg.column) =>
               /\ res.status = 400
               /\ res.body.detail = "Column '" \o arg.column \o "' has no valid data"

\* C13 as stated: prepare_histogram_data fails with ValueError exactly when
\* the column is absent or has no non-missing value.
C13_AsStated ==
    Called("prepare_histogram_data") =>
        (res.exc = "ValueError" <=>
            ColumnAbsent(arg.df, arg.column) \/ ColumnEmpty(arg.df, arg.column))

\* the column b of the upload is in the header and has no value
C13_Witness ==
    /\ Called("POST histogram")
    /\ arg.column = "b"
    /\ arg.bins = 2
    /\ Len(arg.file.contents) = 3
    /\ FileColumnEmpty(arg.file.contents, "b")
    /\ res.status = 400
    /\ res.body.detail = "Column 'b' has no valid data"

\* the rows, in order, in which both of two columns have a value
RECURSIVE CompleteRows(_, _, _)
CompleteRows(x, y, i) ==
    IF i > Len(x) THEN <<>>
    ELSE IF x[i].kind # "nan" /\ y[i].kind # "nan"
         THEN <<i>> \o CompleteRows(x, y, i + 1)
    ELSE CompleteRows(x, y, i + 1)

\* C14: prepare_scatter_data fails with ValueError if x_col or y_col is not
\* a column of the dataset; otherwise it returns x and y of equal length,
\* holding in row order the x and y values of exactly the rows in which
\* neither value is missing.
C14_Scatter ==
    Called("prepare_scatter_data") =>
        IF ColumnAbsent(arg.df, arg.x_col) \/ ColumnAbsent(arg.df, arg.y_col)
        THEN res.exc = "ValueError"
        ELSE LET x == NamedColumn(arg.df, arg.x_col)
                 y == NamedColumn(arg.df, arg.y_col)
                 rows == CompleteRows(x, y, 1)
             IN  /\ res.exc = "none"
                 /\ Len(res.value.x) = Len(rows)
                 /\ Len(res.value.y) = Len(rows)
                 /\ \A k \in 1..Len(rows) :
                      /\ res.value.x[k] = x[rows[k]]
                      /\ res.value.y[k] = y[rows[k]]

\* the same with x_col and y_col two different columns
C14_DistinctColumns ==
    (Called("prepare_scatter_data") /\ arg.x_col # arg.y_col) => C14_Scatter

\* the positions of the numeric columns, in dataset order
NumericColumns(df) == select_from(df.dtypes, 1)

\* a column whose values are at least two and not all equal
Varies(series) == Cardinality(ValuesOf(series)) >= 2

CorrelationShape(df, result) ==
    LET cols == NumericColumns(df)
        k == Len(cols)
    IN  /\ Len(result.columns) = k
        /\ \A i \in 1..k : result.columns[i] = df.columns[cols[i]]
        /\ Len(result.values) = k
        /\ \A i \in 1..k : Len(result.values[i]) = k
        /\ \A i \in 1..k : \A j \in 1..k : result.values[i][j] = result.values[j][i]

\* C15, what the code computes: compute_correlation returns the k numeric
\* column names in dataset order and a k x k matrix with entry (i, j) equal
\* to entry (j, i); diagonal entry i is 1.0 when column i has two different
\* values, and nan when it has fewer than two values or all of them equal.
C15_Correlation ==
    Called("compute_correlation") =>
        /\ res.exc = "none"
        /\ CorrelationShape(arg.df, res.value)
        /\ \A i \in 1..Len(NumericColumns(arg.df)) :
             IF Varies(arg.df.data[NumericColumns(arg.df)[i]])
             THEN res.value.values[i][i] = S(R(1))
             ELSE res.value.values[i][i] = NaN

\* C15 as stated: every diagonal entry equals 1.0.
C15_AsStated ==
    Called("compute_correlation") =>
        /\ res.exc = "none"
        /\ CorrelationShape(arg.df, res.value)
        /\ \A i \in 1..Len(NumericColumns(arg.df)) : res.value.values[i][i] = S(R(1))

\* two numeric columns of three rows whose correlation is not rational
C15_Witness ==
    /\ Returned("compute_correlation")
    /\ res.value.columns = <<"a", "b">>
    /\ nrows(arg.df) = 3
    /\ res.value.values[1][1] = S(R(1))
    /\ res.value.values[2][2] = S(R(1))
    /\ res.value.values[1][2] = [a |-> R(0), b |-> Rat(15, 56), D |-> Rat(112, 9)]

VektorEndpoints == {"POST transform", "POST eigen", "POST determinant", "POST pca"}

\* the request carries a 2x2 matrix and points, or rows of two entries
WellShaped ==
    IF op = "POST pca" THEN ~NotTwoColumns(arg.request.data)
    ELSE IF op = "POST transform"
         THEN /\ Is2x2List(arg.request.matrix)
              /\ IsNone(arg.request.points) \/ arg.request.points # Some(<<>>)
    ELSE Is2x2List(arg.request.matrix)

\* C16: a linear-algebra endpoint answers every request that has the
\* required shape and fails with HTTP 400 carrying the exception message;
\* no failure leaves the handler as an unhandled exception (a 500).
C16_FailuresAre400 ==
    (pc = "done" /\ op \in VektorEndpoints /\ WellShaped /\ res.status # 200) =>
        /\ res.status = 400
        /\ "detail" \in DOMAIN res.body

\* the filename is missing, empty or does not end in ".csv"
NotCsvName(filename) ==
    \/ IsNone(filename)
    \/ filename = Some("")
    \/ \A n \in 0..Len(filename[1]) : SubSeq(filename[1], n + 1, Len(filename[1])) # ".csv"

\* C17: POST upload answers 400 for every file whose filename is missing,
\* empty or does not end in ".csv", without having read the contents; for a
\* filename ending in ".csv" whose contents fail to parse it answers 400 too.
C17_UploadRejects ==
    Called("POST upload") =>
        IF NotCsvName(arg.file.filename)
        THEN /\ res.status = 400
             /\ res.body = [detail |-> "File must be a CSV file"]
             /\ ~res.read
        ELSE /\ res.read
             /\ Raised(read_csv(arg.file.contents)) =>
                  /\ res.status = 400
                  /\ res.body.detail =
                       "Error parsing CSV: " \o read_csv(arg.file.contents).msg

\* a file that would parse, rejected for its name before it is read
C17_Witness ==
    /\ Called("POST upload")
    /\ arg.file.filename = Some("data.txt")
    /\ ~Raised(read_csv(arg.file.contents))
    /\ nrows(read_csv(arg.file.contents).value) = 2
    /\ res.status = 400
    /\ ~res.read

\* the request is a POST to one of the four paths of the Vektor router
ToVektorPath(operation) ==
    /\ Called("app")
    /\ arg.method = "POST"
    /\ arg.path = VektorPrefix \o operation

\* C18: the application of main answers a POST to
\* /api/data-science/vektor/transform, /eigen, /determinant and /pca with
\* the response of the corresponding handler: 200 for a well-formed request,
\* 422 for a matrix that is not 2x2 on /determinant, and never 404.
C18_VektorPathsServed ==
    /\ ToVektorPath("/transform") =>
         res = Response(transform(arg.request, arg.numpy))
    /\ ToVektorPath("/eigen") =>
         res = Response(eigen(arg.request, arg.numpy, arg.lapack))
    /\ ToVektorPath("/determinant") =>
         /\ res = Response(determinant(arg.request, arg.numpy))
         /\ Is2x2List(arg.request.matrix) => res.status = 200
         /\ (arg.numpy = "any" /\ ~Is2x2List(arg.request.matrix)) => res.status = 422
    /\ ToVektorPath("/pca") =>
         res = Response(pca(arg.request, arg.numpy, arg.lapack))
    /\ \A operation \in {"/transform", "/eigen", "/determinant", "/pca"} :
         ToVektorPath(operation) => res.status # 404

\* C18, what the code holds: the four operations are served at /api/transform,
\* /api/eigen, /api/determinant and /api/pca.
C18_MainPathsServed ==
    (Called("app") /\ arg.method = "POST" /\ arg.path = "/api/determinant") =>
        /\ res = Response(determinant(arg.request, arg.numpy))
        /\ res.status # 404

\* row r of m times the vector (x, y), minus lambda times entry r of the vector
EigenResidual(m, lambda, x, y, r) ==
    SSub(SAdd(SMul(S(m[r][1]), x), SMul(S(m[r][2]), y)),
         SMul(lambda, IF r = 1 THEN x ELSE y))

\* column i of components is a non-zero vector v with m v = lambda v
IsEigenvector(components, i, lambda, m) ==
    /\ components[1][i].n2 = components[2][i].n2
    /\ SSign(components[1][i].s) # 0 \/ SSign(components[2][i].s) # 0
    /\ SSign(EigenResidual(m, lambda, components[1][i].s, components[2][i].s, 1)) = 0
    /\ SSign(EigenResidual(m, lambda, components[1][i].s, components[2][i].s, 2)) = 0

ColumnMean(rows, j) == RDiv(RSum([i \in 1..Len(rows) |-> rows[i][j]]), R(Len(rows)))

\* (row - mean) . column i of components
Projection(rows, r, components, i) ==
    Scaled(SAdd(SMul(S(RSub(rows[r][1], ColumnMean(rows, 1))), components[1][i].s),
                SMul(S(RSub(rows[r][2], ColumnMean(rows, 2))), components[2][i].s)),
           components[1][i].n2)

ProjectedOnComponents(rows, result) ==
    /\ Len(result.projected_data) = Len(rows)
    /\ \A r \in 1..Len(rows) : \A i \in 1..2 :
         result.projected_data[r][i] = Projection(rows, r, result.principal_components, i)

PcaInput == Called("compute_pca") /\ ~NotTwoDimensional(arg.data.shape) /\ arg.data.shape[1] >= 2

\* C20, as amended: for an n x 2 dataset (n >= 2) compute_pca returns
\* projected_data whose column i is the centered data projected onto column
\* i of principal_components; and when the covariance eigenvalues do not sum
\* to zero, explained_variance[0] >= explained_variance[1] and column i of
\* principal_components is an eigenvector of the covariance matrix for the
\* eigenvalue that explained_variance[i] reports (the i-th largest).
C20_SortedPairs ==
    PcaInput =>
        /\ res.exc = "none"
        /\ ProjectedOnComponents(arg.data.data, res.value)
        /\ Trace(Covariance(arg.data.data)) # R(0) =>
             /\ SLeq(res.value.explained_variance[2], res.value.explained_variance[1])
             /\ \A i \in 1..2 :
                  IsEigenvector(res.value.principal_components, i,
                                SMul(res.value.explained_variance[i],
                                     S(Trace(Covariance(arg.data.data)))),
                                Covariance(arg.data.data))

\* x >= y of two floats: false when either is nan
float_geq(x, y) == x # NaN /\ y # NaN /\ SLeq(y, x)

\* C20 as stated: explained_variance[0] >= explained_variance[1] in every
\* result.
C20_AsStated ==
    PcaInput =>
        /\ res.exc = "none"
        /\ float_geq(res.value.explained_variance[1], res.value.explained_variance[2])

\* three rows whose covariance has two different, irrational eigenvalues
C20_Witness ==
    /\ PcaInput
    /\ res.exc = "none"
    /\ arg.data.shape = <<3, 2>>
    /\ res.value.explained_variance[1] # NaN
    /\ res.value.explained_variance[1].b # R(0)
    /\ SLt(res.value.explained_variance[2], res.value.explained_variance[1])

\* the response to the request (name, input) served alone
Alone(name, input) ==
    IF name = "POST transform" THEN Response(transform(input.request, input.numpy))
    ELSE IF name = "POST eigen" THEN Response(eigen(input.request, input.numpy, LapackBuild))
    ELSE IF name = "POST determinant" THEN Response(determinant(input.request, input.numpy))
    ELSE IF name = "POST pca" THEN Response(pca(input.request, input.numpy, LapackBuild))
    ELSE StatResponse(after_read(name, input, input.file))

Pair(z) == <<z.re, z.im>>

\* [real, imaginary] of one entry z / sqrt(n2) of a normalized eigenvector
PairOfEntry(e) == <<Scaled(e.s.re, e.n2), Scaled(e.s.im, e.n2)>>

\* the eigenvalues and eigenvectors compute_eigen returns for the request
EigenOf(input) == compute_eigen(np_array(input.request.matrix, input.numpy).value, input.lapack).value

EigenRequest == Called("POST eigen") /\ Is2x2List(arg.request.matrix)

====
